---------------------------- MODULE Spec2Model ----------------------------
(***************************************************************************)
(* Model of shamsi_calendar.23.py: a Tk calendar for the solar Hijri        *)
(* calendar with a date-keyed event store persisted in events.json.       *)
(*                                                                         *)
(* A Python str is a sequence of one-character strings, so that str(),     *)
(* int(), split, join, strip, the regular expression of validate_time and  *)
(* the code-point order used by list.sort are computed, not assumed.       *)
(* A Python list is an object on a heap: two names may alias one list, and *)
(* an in-place change made through one is seen through the other.          *)
(***************************************************************************)
EXTENDS Integers, Sequences, FiniteSets, TLC

VARIABLES
    events,       \* the global dict `events`: date key -> reference to a list object
    heap,         \* the live list objects: reference -> sequence of events
    file,         \* events.json: absent, corrupt, or a JSON object (key string -> array)
    windows,      \* the open day windows (closures of view_day_page)
    panels,       \* the open edit panels (closures of edit_event_panel)
    last,         \* how the handler that ran last ended
    year_entry,   \* text of the Year entry
    month_entry,  \* text of the Month entry
    view_mode,    \* "month" or "year"
    cells,        \* the day buttons in calendar_frame: sequence of <<year, month, day>>
    settings      \* settings.json: the <<last_year, last_month>> written last, if any

vars == <<events, heap, file, windows, panels, last,
          year_entry, month_entry, view_mode, cells, settings>>

storeVars == <<events, heap, file, windows, panels>>
navVars == <<year_entry, month_entry, view_mode, cells, settings>>

(***************************************************************************)
(* Bounds of the model.                                                    *)
(***************************************************************************)
MaxEvents == 2      \* events the store may hold before Add / Import are disabled
MaxWindows == 1     \* day windows open at once
MaxPanels == 1      \* edit panels open at once
YearLo == 1402      \* the Year entry ranges over YearLo .. YearLo + YearSpan
YearSpan == 3

(***************************************************************************)
(* Python values.                                                          *)
(***************************************************************************)
\* None where a str is expected (a cancelled dialog): no str, a str being a
\* sequence of one-character strings
None == <<"None">>

\* An optional int: Nothing for None or for a raised ValueError, Some(n) for n
Nothing == <<>>
Some(n) == <<n>>

Digits == <<"0", "1", "2", "3", "4", "5", "6", "7", "8", "9">>

IsDigit(c) == \E i \in 1..10 : Digits[i] = c

DigitVal(c) == (CHOOSE i \in 1..10 : Digits[i] = c) - 1

\* ord(c) for the characters the model uses
Ord(c) ==
    CASE c = " " -> 32
      [] c = "-" -> 45
      [] IsDigit(c) -> 48 + DigitVal(c)
      [] c = ":" -> 58
      [] c = "a" -> 97
      [] c = "b" -> 98
      [] c = "x" -> 120

\* Python's str < str: lexicographic by code point, a proper prefix is smaller
RECURSIVE StrLess(_, _)
StrLess(a, b) ==
    IF b = <<>> THEN FALSE
    ELSE IF a = <<>> THEN TRUE
    ELSE IF Ord(Head(a)) # Ord(Head(b)) THEN Ord(Head(a)) < Ord(Head(b))
    ELSE StrLess(Tail(a), Tail(b))

\* str(n) for an integer n
RECURSIVE NatStr(_)
NatStr(n) ==
    IF n < 10 THEN <<Digits[n + 1]>>
    ELSE Append(NatStr(n \div 10), Digits[(n % 10) + 1])

IntStr(n) == IF n < 0 THEN <<"-">> \o NatStr(-n) ELSE NatStr(n)

RECURSIVE DigitsVal(_)
DigitsVal(s) ==
    IF s = <<>> THEN 0
    ELSE 10 * DigitsVal(SubSeq(s, 1, Len(s) - 1)) + DigitVal(s[Len(s)])

AllDigits(s) == s # <<>> /\ \A i \in 1..Len(s) : IsDigit(s[i])

\* str.strip(): leading and trailing blanks removed
RECURSIVE LStrip(_)
LStrip(s) == IF s # <<>> /\ Head(s) = " " THEN LStrip(Tail(s)) ELSE s

RECURSIVE RStrip(_)
RStrip(s) ==
    IF s # <<>> /\ s[Len(s)] = " " THEN RStrip(SubSeq(s, 1, Len(s) - 1)) ELSE s

Strip(s) == RStrip(LStrip(s))

\* int(s): Nothing stands for ValueError.  Blanks around the number and a
\* sign are accepted, as Python does.
ParseInt(s) ==
    LET t == Strip(s)
        signed == t # <<>> /\ Head(t) \in {"-", "+"}
        d == IF signed THEN Tail(t) ELSE t
    IN  IF ~AllDigits(d) THEN Nothing
        ELSE IF signed /\ Head(t) = "-" THEN Some(0 - DigitsVal(d))
        ELSE Some(DigitsVal(d))

\* s.split("-")
RECURSIVE Split(_)
Split(s) ==
    IF \A i \in 1..Len(s) : s[i] # "-" THEN <<s>>
    ELSE LET i == CHOOSE j \in 1..Len(s) :
                      s[j] = "-" /\ \A k \in 1..(j - 1) : s[k] # "-"
         IN  <<SubSeq(s, 1, i - 1)>> \o Split(SubSeq(s, i + 1, Len(s)))

\* "-".join(parts)
RECURSIVE Join(_)
Join(parts) ==
    IF Len(parts) = 0 THEN <<>>
    ELSE IF Len(parts) = 1 THEN parts[1]
    ELSE parts[1] \o <<"-">> \o Join(Tail(parts))

(***************************************************************************)
(* Events.  An event is the tuple (text, color, time, priority).           *)
(***************************************************************************)
Text(e) == e[1]
Color(e) == e[2]
Time(e) == e[3]
Priority(e) == e[4]

\* re.match(r'^([0-1]?[0-9]|2[0-3]):[0-5][0-9]$', s) on a string without a newline
TimePatternMatches(s) ==
    \E h \in 1..2 :
        /\ Len(s) = h + 3
        /\ \/ h = 1 /\ IsDigit(s[1])
           \/ h = 2 /\ s[1] \in {"0", "1"} /\ IsDigit(s[2])
           \/ h = 2 /\ s[1] = "2" /\ s[2] \in {"0", "1", "2", "3"}
        /\ s[h + 1] = ":"
        /\ s[h + 2] \in {"0", "1", "2", "3", "4", "5"}
        /\ IsDigit(s[h + 3])

validate_time(time_str) ==
    IF time_str = <<>> THEN TRUE ELSE TimePatternMatches(time_str)

priority_to_str(priority) ==
    CASE priority = 1 -> "High"
      [] priority = 2 -> "Medium"
      [] priority = 3 -> "Low"
      [] OTHER -> "Unknown"

str_to_priority(priority_str) ==
    CASE priority_str = "High" -> 1
      [] priority_str = "Medium" -> 2
      [] priority_str = "Low" -> 3
      [] OTHER -> 2

\* Python truthiness of an optional string: None and "" are false
Truthy(s) == s # None /\ s # <<>>

\* `s or ""`
OrEmpty(s) == IF Truthy(s) THEN s ELSE <<>>

(***************************************************************************)
(* list.sort(key=...): the stable sort.  Element i of the list goes to the *)
(* position counting the elements with a smaller key and the earlier       *)
(* elements with an equal key.                                             *)
(***************************************************************************)
StableSort(seq, Less(_, _)) ==
    LET n == Len(seq)
        rank(i) == 1 + Cardinality({j \in 1..n :
                        \/ Less(seq[j], seq[i])
                        \/ j < i /\ ~Less(seq[i], seq[j])})
    IN  [p \in 1..n |-> seq[CHOOSE i \in 1..n : rank(i) = p]]

\* key=lambda e: (e[2] == "", e[2] or "25:00"), compared as Python compares tuples
SortTimeKey(e) == <<Time(e) = <<>>, IF Truthy(Time(e)) THEN Time(e)
                                      ELSE <<"2", "5", ":", "0", "0">> >>

TimeKeyLess(a, b) ==
    LET ka == SortTimeKey(a)
        kb == SortTimeKey(b)
    IN  IF ka[1] # kb[1] THEN kb[1] ELSE StrLess(ka[2], kb[2])

\* key=lambda e: e[3]
PriorityKeyLess(a, b) == Priority(a) < Priority(b)

SortedByTime(seq) == StableSort(seq, TimeKeyLess)

SortedByPriority(seq) == StableSort(seq, PriorityKeyLess)

\* day_events.insert(j, day_events.pop(i)), 0-based i < len; insert clamps j
RemoveAt(seq, i) == SubSeq(seq, 1, i) \o SubSeq(seq, i + 2, Len(seq))

InsertAt(seq, j, x) ==
    LET p == IF j > Len(seq) THEN Len(seq) ELSE j
    IN  SubSeq(seq, 1, p) \o <<x>> \o SubSeq(seq, p + 1, Len(seq))

MoveItem(seq, i, j) == InsertAt(RemoveAt(seq, i), j, seq[i + 1])

(***************************************************************************)
(* Date keys and events.json.                                              *)
(***************************************************************************)
\* A faulty key encoding that writes the month before the year
EncodeKey_swapped(k) ==
    Join([i \in 1..Len(k) |-> IntStr(k[IF i = 1 THEN 2 ELSE IF i = 2 THEN 1 ELSE i])])

\* "-".join(map(str, k))
EncodeKey(k) == Join([i \in 1..Len(k) |-> IntStr(k[i])])

\* tuple(map(int, k.split("-"))); the empty tuple, which split never yields,
\* stands for ValueError
KeyError == <<>>

DecodeKey(s) ==
    LET parts == Split(s)
        ints == [i \in 1..Len(parts) |-> ParseInt(parts[i])]
    IN  IF \E i \in 1..Len(parts) : ints[i] = Nothing THEN KeyError
        ELSE [i \in 1..Len(parts) |-> ints[i][1]]

\* The dict `events` with each list dereferenced
Store == [k \in DOMAIN events |-> heap[events[k]]]

\* The object json.dump writes in save_events: a tuple becomes an array
Dumped(store) ==
    [s \in {EncodeKey(k) : k \in DOMAIN store} |->
        store[CHOOSE k \in DOMAIN store : EncodeKey(k) = s]]

\* The dict comprehension of load_events over a JSON object whose keys all decode
Loaded(raw) ==
    [k \in {DecodeKey(s) : s \in DOMAIN raw} |->
        raw[CHOOSE s \in DOMAIN raw : DecodeKey(s) = k]]

KeysDecode(raw) == \A s \in DOMAIN raw : DecodeKey(s) # KeyError

(***************************************************************************)
(* Inputs of the model: what the user types, picks or imports.             *)
(***************************************************************************)
\* jdatetime.date.today() when the program started
Today == <<1403, 12, 20>>

\* The day whose button the user clicks, and the days an imported file names
ClickedDates == {<<1403, 12, 30>>}
Dates == ClickedDates \cup {<<1403, 12, 29>>, <<1, 1, 1>>}

T_0930 == <<"9", ":", "3", "0">>
T_1000 == <<"1", "0", ":", "0", "0">>
T_2400 == <<"2", "4", ":", "0", "0">>
T_9999 == <<"9", "9", ":", "9", "9">>

\* askstring: None when cancelled
TextInputs == {None, <<>>, <<"a">>}
TimeInputs == {None, T_0930, T_1000, T_2400}
FewTimeInputs == {None, T_1000, T_2400}
\* askinteger(minvalue=1, maxvalue=3): None when cancelled
PriorityInputs == {Nothing, Some(1), Some(2)}
FewPriorityInputs == {Nothing, Some(1)}
\* colorchooser.askcolor()[1]
ColorInputs == {"#cccccc"}
\* Entry.get() of the edit panel
EntryTexts == {<<>>, <<" ">>, <<"a", " ">>}
EntryTimes == {<<>>, <<" ">> \o T_1000, T_2400}
PriorityNames == {"High"}
\* How the write of save_events ends: done, or IOError
IOOutcomes == {"ok", "write_fails"}

K_1403_12_30 == <<"1", "4", "0", "3", "-", "1", "2", "-", "3", "0">>
K_1403_12_029 == <<"1", "4", "0", "3", "-", "1", "2", "-", "0", "2", "9">>
K_x_1_1 == <<"x", "-", "1", "-", "1">>
K_neg == <<"-", "1", "-", "1", "-", "1">>
K_1_1_1 == <<"1", "-", "1", "-", "1">>

\* The files the user may pick in import_events: what open/json.load yield
ImportFileIds == 1..8
\* Without the file that names a second day and the file of malformed events
FewImportFileIds == ImportFileIds \ {2, 3}
\* With files of other days as well
ManyImportFileIds == ImportFileIds \cup 9..13

ImportFile(n) ==
    CASE n = 1 -> [state |-> "ok", json |->
                     (K_1403_12_30 :> << <<<<"a">>, "#cccccc", T_1000, 1>> >>)]
      [] n = 2 -> [state |-> "ok", json |-> (K_1403_12_029 :> << <<<<"a">>>> >>)]
      [] n = 3 -> [state |-> "ok", json |->
                     (K_1403_12_30 :> << <<<<>>, "#cccccc", T_9999, 7>> >>)]
      [] n = 4 -> [state |-> "ok", json |->
                     (K_x_1_1 :> << <<<<"a">>, "#cccccc", <<>>, 1>> >>)]
      [] n = 5 -> [state |-> "ok", json |-> (K_1403_12_029 :> << <<>> >>)]
      [] n = 6 -> [state |-> "ok", json |->
                     (K_neg :> << <<<<"a">>, "#cccccc", <<>>, 1>> >>)]
      [] n = 7 -> [state |-> "unreadable", json |-> <<>>]
      [] n = 9 -> [state |-> "ok", json |->
                     (K_1_1_1 :> << <<<<"b">>, "#cccccc", T_0930, 3>> >>)]
      [] n = 10 -> [state |-> "ok", json |->
                     (K_1403_12_30 :> << <<<<"b">>, "#cccccc", <<>>, 2>> >>)
                        @@ (K_1_1_1 :> << <<<<"a">>, "#cccccc", T_1000, 1>> >>)]
      [] n = 11 -> [state |-> "ok", json |->
                     (K_1403_12_029 :> << <<<<"b">>, "#cccccc", T_1000>> >>)]
      [] n = 12 -> [state |-> "ok", json |->
                     (K_1_1_1 :> << <<<<"a">>, "#cccccc", <<>>, 2>>,
                                    <<<<"a">>, "#cccccc", T_0930, 1>> >>)]
      [] n = 13 -> [state |-> "ok", json |->
                     (K_1403_12_029 :> << <<<<"a">>, "#cccccc", T_0930, 3>> >>)
                        @@ (K_1_1_1 :> << <<<<"b">>>> >>)]
      [] OTHER -> [state |-> "bad_json", json |-> <<>>]

(***************************************************************************)
(* The heap of list objects.                                               *)
(***************************************************************************)
Refs == 1..(Cardinality(Dates) + MaxWindows + MaxPanels + 2)

FreshRef(used) == CHOOSE r \in Refs \ used : \A q \in Refs \ used : r <= q

\* events.get(key, []) as a value
GetList(ev, hp, key) == IF key \in DOMAIN ev THEN hp[ev[key]] ELSE <<>>

StoreOf(ev, hp) == [k \in DOMAIN ev |-> hp[ev[k]]]

TotalEvents(store) ==
    LET RECURSIVE Sum(_)
        Sum(ks) == IF ks = {} THEN 0
                   ELSE LET k == CHOOSE x \in ks : TRUE
                        IN  Len(store[k]) + Sum(ks \ {k})
    IN  Sum(DOMAIN store)

\* events[key] = value, for a key that may be new
SetKey(ev, key, ref) ==
    [k \in DOMAIN ev \cup {key} |-> IF k = key THEN ref ELSE ev[k]]

\* The objects still referenced: the rest is garbage
Live(ev, wins, pans) ==
    {ev[k] : k \in DOMAIN ev} \cup {w.ref : w \in wins} \cup {p.ref : p \in pans}

Collect(ev, hp, wins, pans) ==
    [r \in Live(ev, wins, pans) |-> hp[r]]

Dragging == \E w \in windows : w.drag # Nothing

\* The values of `last`
Idle == "none"
Rejected == "rejected"
Raised == "raised"


(***************************************************************************)
(* The calendar: leap years, days of a month, the day buttons.             *)
(***************************************************************************)
\* jdatetime.date.isleap of the jdatetime library
jdatetime_isleap(year) == (year % 33) \in {1, 5, 9, 13, 17, 22, 26, 30}

\* Whether jdatetime.date(year, month, day) is constructed (no ValueError):
\* the library's range checks, MINYEAR = 1 and MAXYEAR = 9377
jdatetime_date_ok(year, month, day) ==
    /\ 1 <= year /\ year <= 9377
    /\ 1 <= month /\ month <= 12
    /\ 1 <= day
    /\ day <= (IF month <= 6 THEN 31
               ELSE IF month <= 11 THEN 30
               ELSE IF jdatetime_isleap(year) THEN 30 ELSE 29)

is_leap_year(year) == jdatetime_date_ok(year, 12, 30)

\* A faulty day count that forgets the short last month
get_days_in_month_no_leap(year, month) == IF month <= 6 THEN 31 ELSE 30

get_days_in_month(year, month) ==
    IF month <= 6 THEN 31
    ELSE IF month <= 11 THEN 30
    ELSE IF is_leap_year(year) THEN 30 ELSE 29

\* The buttons the loop of show_calendar (and the inner loop of
\* show_full_year_calendar) creates, in order: one per day, until a date
\* that jdatetime refuses raises ValueError
RECURSIVE ButtonsFrom(_, _, _, _)
ButtonsFrom(year, month, day, n) ==
    IF day > n \/ ~jdatetime_date_ok(year, month, day) THEN <<>>
    ELSE <<<<year, month, day>>>> \o ButtonsFrom(year, month, day + 1, n)

MonthButtons(year, month) ==
    ButtonsFrom(year, month, 1, get_days_in_month(year, month))

\* show_calendar: the frame is emptied first; the month label needs
\* jdatetime.date(year, month, 1)
show_calendar(year, month) ==
    IF ~jdatetime_date_ok(year, month, 1) THEN <<>> ELSE MonthButtons(year, month)

\* show_full_year_calendar: months 1..12 in turn, stopping at a ValueError
RECURSIVE YearButtonsFrom(_, _)
YearButtonsFrom(year, m) ==
    IF m > 12 \/ ~jdatetime_date_ok(year, m, 1) THEN <<>>
    ELSE LET b == MonthButtons(year, m)
         IN  IF Len(b) < get_days_in_month(year, m) THEN b
             ELSE b \o YearButtonsFrom(year, m + 1)

show_full_year_calendar(year) == YearButtonsFrom(year, 1)

\* set_calendar: the new (cells, settings); unchanged when int() or the month
\* check raises ValueError
set_calendar(ye, me, mode, oldCells, oldSettings) ==
    LET y == ParseInt(ye)
        m == ParseInt(me)
    IN  IF y = Nothing \/ m = Nothing
        THEN [cells |-> oldCells, settings |-> oldSettings, ok |-> FALSE]
        ELSE IF ~(1 <= m[1] /\ m[1] <= 12)
        THEN [cells |-> oldCells, settings |-> oldSettings, ok |-> FALSE]
        ELSE [cells |-> IF mode = "year" THEN show_full_year_calendar(y[1])
                        ELSE show_calendar(y[1], m[1]),
              settings |-> <<y[1], m[1]>>,
              ok |-> TRUE]

\* A handler's call of set_calendar() with the entries as they are
Redraw ==
    /\ \E r \in {set_calendar(year_entry, month_entry, view_mode, cells, settings)} :
          cells' = r.cells /\ settings' = r.settings
    /\ UNCHANGED <<year_entry, month_entry, view_mode>>

HasButton(key) == \E i \in 1..Len(cells) : cells[i] = key

(***************************************************************************)
(* events.json                                                             *)
(***************************************************************************)
AbsentFile == [state |-> "absent", json |-> <<>>]
CorruptFile == [state |-> "corrupt", json |-> <<>>]

\* A faulty save that dumps the store as it was when the handler began
save_events_early(ev, hp, io) ==
    IF io = "ok" THEN [state |-> "ok", json |-> Dumped(Store)]
    ELSE CorruptFile

\* save_events: the file is opened for writing, which empties it, and the
\* store is dumped; an IOError is reported and swallowed, and leaves the file
\* truncated
save_events(ev, hp, io) ==
    IF io = "ok" THEN [state |-> "ok", json |-> Dumped(StoreOf(ev, hp))]
    ELSE CorruptFile

\* `last` after a handler that changed the store and got to its end
Completed(io) == IF io = "ok" THEN "completed" ELSE "write_failed"

\* load_events at start-up, on an empty `events`: the store it leaves
load_events(f) ==
    IF f.state = "ok" THEN Loaded(f.json) ELSE <<>>

\* The store as a dict of fresh list objects
RefOfKey(store) ==
    CHOOSE f \in [DOMAIN store -> 1..Cardinality(DOMAIN store)] :
        \A a, b \in DOMAIN store : a # b => f[a] # f[b]

(***************************************************************************)
(* Initial state: the module has run to root.mainloop() with no            *)
(* events.json and no settings.json.                                       *)
(***************************************************************************)
Init ==
    /\ events = <<>>
    /\ heap = <<>>
    /\ file = AbsentFile
    /\ windows = {}
    /\ panels = {}
    /\ last = Idle
    /\ year_entry = IntStr(Today[1])
    /\ month_entry = IntStr(Today[2])
    /\ view_mode = "month"
    /\ LET r == set_calendar(IntStr(Today[1]), IntStr(Today[2]), "month", <<>>, <<>>)
       IN  cells = r.cells /\ settings = r.settings

(***************************************************************************)
(* Day windows.  A window is the closure of one view_day_page call:        *)
(*   key   the date, ref  its day_events list, drag  its drag_index        *)
(*   (Nothing for None), lb  the number of rows of its Listbox.            *)
(***************************************************************************)
\* day_events = events.get(key, []); the Listbox is filled from it
WindowRef(ev, hp, key) == IF key \in DOMAIN ev THEN ev[key] ELSE FreshRef(DOMAIN hp)

HeapForWindow(ev, hp, key) ==
    IF key \in DOMAIN ev THEN hp ELSE hp @@ (FreshRef(DOMAIN hp) :> <<>>)

view_day_page(ev, hp, key) ==
    [key |-> key, ref |-> WindowRef(ev, hp, key), drag |-> Nothing,
     lb |-> Len(HeapForWindow(ev, hp, key)[WindowRef(ev, hp, key)])]

\* Listbox.nearest(y): a row index, or -1 when the Listbox is empty
Nearest(w) == IF w.lb = 0 THEN {-1} ELSE 0..(w.lb - 1)

(***************************************************************************)
(* A reference is the identity of a list object and nothing more, so the   *)
(* objects are renumbered after every handler in the order in which the    *)
(* dict, the day windows and the edit panels reach them, and unreachable   *)
(* objects are dropped.                                                    *)
(***************************************************************************)
\* Distinct for the dates of one half-century, and small
KeyCode(k) == ((k[1] % 50) * 13 + k[2]) * 32 + k[3]
WindowCode(w) ==
    ((KeyCode(w.key) * 16 + (IF w.drag = Nothing THEN 0 ELSE w.drag[1] + 2)) * 16
        + w.lb) * 16 + w.ref
PanelCode(p) == p.idx * 16 + p.ref

\* The elements of S in the order of their (distinct) codes
InOrder(S, Code(_)) ==
    [i \in 1..Cardinality(S) |->
        CHOOSE x \in S : Cardinality({y \in S : Code(y) < Code(x)}) = i - 1]

Roots(ev, wins, pans) ==
    LET ks == InOrder(DOMAIN ev, KeyCode)
        ws == InOrder(wins, WindowCode)
        ps == InOrder(pans, PanelCode)
    IN  [i \in 1..Len(ks) |-> ev[ks[i]]] \o [i \in 1..Len(ws) |-> ws[i].ref]
            \o [i \in 1..Len(ps) |-> ps[i].ref]

Renumbering(ev, wins, pans) ==
    LET roots == Roots(ev, wins, pans)
        first(r) == CHOOSE i \in 1..Len(roots) :
                        roots[i] = r /\ \A j \in 1..(i - 1) : roots[j] # r
    IN  [r \in Live(ev, wins, pans) |->
            1 + Cardinality({roots[j] : j \in 1..(first(r) - 1)})]

\* The end of every handler of the store
Commit(ev, hp, wins, pans) ==
    \E ren \in {Renumbering(ev, wins, pans)} :
        /\ events' = [k \in DOMAIN ev |-> ren[ev[k]]]
        /\ windows' = {[w EXCEPT !.ref = ren[w.ref]] : w \in wins}
        /\ panels' = {[p EXCEPT !.ref = ren[p.ref]] : p \in pans}
        /\ heap' = [n \in {ren[r] : r \in DOMAIN ren} |->
                       hp[CHOOSE r \in DOMAIN ren : ren[r] = n]]

\* on_day_click: a day button opens a day window
on_day_click(key) ==
    /\ ~Dragging
    /\ HasButton(key)
    /\ Cardinality(windows) < MaxWindows
    /\ view_day_page(events, heap, key) \notin windows
    /\ Commit(events, HeapForWindow(events, heap, key),
              windows \cup {view_day_page(events, heap, key)}, panels)
    /\ last' = Idle
    /\ UNCHANGED <<file, navVars>>

\* WM_DELETE_WINDOW of a day window
close_day_window(w) ==
    /\ ~Dragging
    /\ Commit(events, heap, windows \ {w}, panels)
    /\ last' = Idle
    /\ UNCHANGED <<file, navVars>>

\* The body shared by sort_by_time and sort_by_priority: the list is sorted
\* in place, a copy of it is stored under the key, the store is saved and
\* the Listbox is refilled
SortWindow(w, sorted, io, name) ==
    LET hp1 == [heap EXCEPT ![w.ref] = sorted]
        r == FreshRef(DOMAIN heap)
        hp2 == hp1 @@ (r :> sorted)
        ev == SetKey(events, w.key, r)
    IN  /\ ~Dragging
        /\ Commit(ev, hp2, (windows \ {w}) \cup {[w EXCEPT !.lb = Len(sorted)]}, panels)
        /\ file' = save_events(ev, hp2, io)
        /\ last' = Completed(io)
        /\ UNCHANGED navVars

sort_by_time(w, io) ==
    SortWindow(w, SortedByTime(heap[w.ref]), io, "sort_by_time")

sort_by_priority(w, io) ==
    SortWindow(w, SortedByPriority(heap[w.ref]), io, "sort_by_priority")

\* <Button-1> on the Listbox
start_drag(w, y) ==
    /\ ~Dragging
    /\ y \in Nearest(w)
    /\ Commit(events, heap, (windows \ {w}) \cup {[w EXCEPT !.drag = Some(y)]}, panels)
    /\ last' = Idle
    /\ UNCHANGED <<file, navVars>>

\* <B1-Motion>: the row is moved in the Listbox and in day_events, in place;
\* pop raises IndexError when the list is shorter than the Listbox
drag_motion(w, y) ==
    /\ w.drag # Nothing
    /\ y \in Nearest(w)
    /\ LET d == w.drag[1]
       IN  IF y >= 0 /\ y # d
           THEN IF d >= Len(heap[w.ref])
                THEN /\ UNCHANGED <<events, heap, windows, panels>>
                     /\ last' = Raised
                ELSE /\ Commit(events, [heap EXCEPT ![w.ref] = MoveItem(@, d, y)],
                               (windows \ {w}) \cup {[w EXCEPT !.drag = Some(y)]}, panels)
                     /\ last' = Idle
           ELSE /\ UNCHANGED <<events, heap, windows, panels>>
                /\ last' = Idle
    /\ UNCHANGED <<file, navVars>>

\* <ButtonRelease-1>
end_drag(w, io) ==
    /\ w.drag # Nothing
    /\ LET r == FreshRef(DOMAIN heap)
           hp == heap @@ (r :> heap[w.ref])
           ev == SetKey(events, w.key, r)
       IN  /\ Commit(ev, hp, (windows \ {w}) \cup {[w EXCEPT !.drag = Nothing]}, panels)
           /\ file' = save_events(ev, hp, io)
           /\ last' = Completed(io)
    /\ Redraw

\* events.setdefault(key, []).append(event)
AppendEvent(ev, hp, key, e) ==
    IF key \in DOMAIN ev
    THEN [ev |-> ev, hp |-> [hp EXCEPT ![ev[key]] = Append(@, e)]]
    ELSE [ev |-> SetKey(ev, key, FreshRef(DOMAIN hp)),
          hp |-> hp @@ (FreshRef(DOMAIN hp) :> <<e>>)]

\* Faulty dialogs that never look at the time
AddOutcome_unchecked(text, time, priority) ==
    IF ~Truthy(text) THEN "no_text"
    ELSE IF priority = Nothing THEN "no_priority"
    ELSE "valid"

\* What the dialogs of add_event_button make of their answers
AddOutcome(text, time, priority) ==
    IF ~Truthy(text) THEN "no_text"
    ELSE IF Truthy(time) /\ ~validate_time(time) THEN "bad_time"
    ELSE IF priority = Nothing THEN "no_priority"
    ELSE "valid"

\* The Add Event button of a day window
add_event_button(w, text, time, priority, color, io) ==
    /\ ~Dragging
    /\ IF AddOutcome(text, time, priority) # "valid"
       THEN /\ UNCHANGED <<storeVars, navVars>>
            /\ last' = Rejected
       ELSE /\ TotalEvents(Store) < MaxEvents
            /\ LET a == AppendEvent(events, heap, w.key,
                                    <<text, color, OrEmpty(time), priority[1]>>)
               IN  /\ Commit(a.ev, a.hp,
                             (windows \ {w}) \cup {view_day_page(a.ev, a.hp, w.key)},
                             panels)
                   /\ file' = save_events(a.ev, a.hp, io)
            /\ last' = Completed(io)
            /\ Redraw

\* What edit_events makes of the index typed (None when cancelled)
EditOutcome(day_events, selected) ==
    IF day_events = <<>> THEN "no_events"
    ELSE IF selected = Nothing THEN "cancelled"
    ELSE IF ~(1 <= selected[1] /\ selected[1] <= Len(day_events)) THEN "bad_index"
    ELSE "valid"

\* The Edit Events button: edit_events, which may open an edit panel on
\* events[key], then the day window is closed and opened again
edit_event_button(w, selected) ==
    LET o == EditOutcome(GetList(events, heap, w.key), selected)
        hp == HeapForWindow(events, heap, w.key)
        wins == (windows \ {w}) \cup {view_day_page(events, heap, w.key)}
    IN  /\ ~Dragging
        /\ IF o = "valid"
           THEN LET p == [ref |-> events[w.key], idx |-> selected[1] - 1]
                IN  /\ p \in panels \/ Cardinality(panels) < MaxPanels
                    /\ Commit(events, hp, wins, panels \cup {p})
                    /\ last' = Idle
           ELSE /\ Commit(events, hp, wins, panels)
                /\ last' = Rejected
        /\ UNCHANGED <<file, navVars>>

\* The Delete All Events button of a day window
delete_event_button(w, choice, io) ==
    /\ ~Dragging
    /\ IF GetList(events, heap, w.key) = <<>>
       THEN /\ UNCHANGED <<storeVars, navVars>>
            /\ last' = Rejected
       ELSE IF ~choice
       THEN /\ UNCHANGED <<storeVars, navVars>>
            /\ last' = Rejected
       ELSE LET r == FreshRef(DOMAIN heap)
                hp == heap @@ (r :> <<>>)
                ev == SetKey(events, w.key, r)
            IN  /\ Commit(ev, hp, windows \ {w}, panels)
                /\ file' = save_events(ev, hp, io)
                /\ last' = Completed(io)
                /\ Redraw

(***************************************************************************)
(* Edit panels.  A panel is the closure of one edit_event_panel call:      *)
(* ref its day_events list (events[key] when it was opened), idx the index.*)
(***************************************************************************)
\* What save_changes makes of the entries
SaveOutcome(text, time) ==
    IF Strip(text) = <<>> THEN "no_text"
    ELSE IF Strip(time) # <<>> /\ ~validate_time(Strip(time)) THEN "bad_time"
    ELSE "valid"

\* The Save button; day_events[idx] = ... raises IndexError on a list that
\* has become shorter
save_changes(p, text, time, priority_str, color, io) ==
    /\ ~Dragging
    /\ IF SaveOutcome(text, time) # "valid"
       THEN /\ UNCHANGED <<storeVars, navVars>>
            /\ last' = Rejected
       ELSE IF p.idx >= Len(heap[p.ref])
       THEN /\ UNCHANGED <<storeVars, navVars>>
            /\ last' = Raised
       ELSE LET e == <<Strip(text), color, OrEmpty(Strip(time)),
                       str_to_priority(priority_str)>>
                hp == [heap EXCEPT ![p.ref][p.idx + 1] = e]
            IN  /\ Commit(events, hp, windows, panels \ {p})
                /\ file' = save_events(events, hp, io)
                /\ last' = Completed(io)
                /\ Redraw

\* The Delete button; day_events.pop(idx) raises IndexError likewise
delete_event(p, choice, io) ==
    /\ ~Dragging
    /\ IF ~choice
       THEN /\ UNCHANGED <<storeVars, navVars>>
            /\ last' = Rejected
       ELSE IF p.idx >= Len(heap[p.ref])
       THEN /\ UNCHANGED <<storeVars, navVars>>
            /\ last' = Raised
       ELSE LET hp == [heap EXCEPT ![p.ref] = RemoveAt(@, p.idx)]
            IN  /\ Commit(events, hp, windows, panels \ {p})
                /\ file' = save_events(events, hp, io)
                /\ last' = Completed(io)
                /\ Redraw

\* The Cancel button, or WM_DELETE_WINDOW of the panel
cancel_panel(p) ==
    /\ ~Dragging
    /\ Commit(events, heap, windows, panels \ {p})
    /\ last' = Idle
    /\ UNCHANGED <<file, navVars>>

(***************************************************************************)
(* The File menu.                                                          *)
(***************************************************************************)
\* Delete All Events; events.clear() empties the dict, not the lists
delete_all_events(choice, io) ==
    /\ ~Dragging
    /\ IF DOMAIN events = {}
       THEN /\ UNCHANGED <<storeVars, navVars>>
            /\ last' = Rejected
       ELSE IF ~choice
       THEN /\ UNCHANGED <<storeVars, navVars>>
            /\ last' = Rejected
       ELSE /\ Commit(<<>>, heap, windows, panels)
            /\ file' = save_events(<<>>, heap, io)
            /\ last' = Completed(io)
            /\ Redraw

\* One imported event: a 4-tuple, the missing fields defaulted
ImportedEvent(event) ==
    <<event[1],
      IF Len(event) > 1 THEN event[2] ELSE "#cccccc",
      IF Len(event) > 2 THEN event[3] ELSE <<>>,
      IF Len(event) > 3 THEN event[4] ELSE 2>>

\* What the try block of import_events makes of the file
ImportOutcome(f) ==
    IF f.state = "unreadable" THEN "unreadable"
    ELSE IF f.state = "bad_json" THEN "bad_json"
    ELSE IF ~KeysDecode(f.json) THEN "bad_key"
    ELSE IF \E s \in DOMAIN f.json : \E i \in 1..Len(f.json[s]) : f.json[s][i] = <<>>
    THEN "bad_event"
    ELSE "valid"

\* imported_events of import_events, for a file whose outcome is "valid"
ImportedEvents(raw) ==
    LET l == Loaded(raw)
    IN  [k \in DOMAIN l |-> [i \in 1..Len(l[k]) |-> ImportedEvent(l[k][i])]]

\* events.update(imported_events): each imported key gets a new list
UpdateEvents(ev, hp, imported) ==
    LET free == Refs \ DOMAIN hp
        at == CHOOSE f \in [DOMAIN imported -> free] :
                  \A a, b \in DOMAIN imported : a # b => f[a] # f[b]
    IN  [ev |-> [k \in DOMAIN ev \cup DOMAIN imported |->
                    IF k \in DOMAIN imported THEN at[k] ELSE ev[k]],
         hp |-> [r \in DOMAIN hp \cup {at[k] : k \in DOMAIN imported} |->
                    IF r \in DOMAIN hp THEN hp[r]
                    ELSE imported[CHOOSE k \in DOMAIN imported : at[k] = r]]]

\* Import Events
import_events(f, io) ==
    /\ ~Dragging
    /\ IF ImportOutcome(f) # "valid"
       THEN /\ UNCHANGED <<storeVars, navVars>>
            /\ last' = Rejected
       ELSE LET u == UpdateEvents(events, heap, ImportedEvents(f.json))
            IN  /\ TotalEvents(StoreOf(u.ev, u.hp)) <= MaxEvents
                /\ Commit(u.ev, u.hp, windows, panels)
                /\ file' = save_events(u.ev, u.hp, io)
                /\ last' = Completed(io)
                /\ Redraw

\* The program is closed and started again: load_events on an empty store,
\* the entries filled from settings.json, the month view drawn
restart ==
    /\ ~Dragging
    /\ file.state = "ok" => KeysDecode(file.json)
    /\ LET store == load_events(file)
           at == RefOfKey(store)
       IN  Commit([k \in DOMAIN store |-> at[k]],
                  [r \in {at[k] : k \in DOMAIN store} |->
                      store[CHOOSE k \in DOMAIN store : at[k] = r]],
                  {}, {})
    /\ year_entry' = IntStr(settings[1])
    /\ month_entry' = IntStr(settings[2])
    /\ view_mode' = "month"
    /\ \E r \in {set_calendar(IntStr(settings[1]), IntStr(settings[2]), "month",
                              <<>>, settings)} :
          cells' = r.cells /\ settings' = r.settings
    /\ last' = "loaded"
    /\ UNCHANGED file

\* How a write may end when the handler gets to write
IOFor(valid) == IF valid THEN IOOutcomes ELSE {"ok"}

DayWindowStep(times, priorities) ==
    \/ \E key \in ClickedDates : on_day_click(key)
    \/ \E w \in windows : close_day_window(w)
    \/ \E w \in windows, io \in IOOutcomes : sort_by_time(w, io)
    \/ \E w \in windows, io \in IOOutcomes : sort_by_priority(w, io)
    \/ \E w \in windows, y \in -1..MaxEvents : start_drag(w, y)
    \/ \E w \in windows, y \in -1..MaxEvents : drag_motion(w, y)
    \/ \E w \in windows, io \in IOOutcomes : end_drag(w, io)
    \/ \E w \in windows, text \in TextInputs, time \in times,
          priority \in priorities, color \in ColorInputs :
          \E io \in IOFor(AddOutcome(text, time, priority) = "valid") :
            add_event_button(w, text, time, priority, color, io)
    \/ \E w \in windows, choice \in BOOLEAN : \E io \in IOFor(choice) :
            delete_event_button(w, choice, io)

PanelStep ==
    \/ \E w \in windows, selected \in {Nothing} \cup {Some(i) : i \in 0..(MaxEvents + 1)} :
            edit_event_button(w, selected)
    \/ \E p \in panels, text \in EntryTexts, time \in EntryTimes,
          priority_str \in PriorityNames, color \in ColorInputs :
          \E io \in IOFor(SaveOutcome(text, time) = "valid") :
            save_changes(p, text, time, priority_str, color, io)
    \/ \E p \in panels, choice \in BOOLEAN : \E io \in IOFor(choice) :
            delete_event(p, choice, io)
    \/ \E p \in panels : cancel_panel(p)

FileMenuStep(files) ==
    \/ \E choice \in BOOLEAN : \E io \in IOFor(choice) : delete_all_events(choice, io)
    \/ \E n \in files : \E io \in IOFor(ImportOutcome(ImportFile(n)) = "valid") :
            import_events(ImportFile(n), io)

\* The whole program, the user importing well-formed files for the clicked day
Next ==
    \/ DayWindowStep(FewTimeInputs, FewPriorityInputs)
    \/ PanelStep
    \/ FileMenuStep(FewImportFileIds)
    \/ restart

Spec == Init /\ [][Next]_vars

\* The program without the Edit Events button, the user typing any of the
\* times and importing any of the files
NextDay ==
    \/ DayWindowStep(TimeInputs, PriorityInputs)
    \/ FileMenuStep(ImportFileIds)
    \/ restart

SpecDay == Init /\ [][NextDay]_vars

(***************************************************************************)
(* Navigation: the Year and Month entries, the view mode, the arrow keys.  *)
(***************************************************************************)
Years == YearLo..(YearLo + YearSpan)

\* What the user types into the entries
YearTexts == {<<"x">>, IntStr(YearLo)}
MonthTexts == {<<"x">>, <<"0">>, <<"1", "3">>, <<"0", "1">>, <<"1", "2">>}

type_year(text) ==
    /\ year_entry' = text
    /\ last' = Idle
    /\ UNCHANGED <<storeVars, month_entry, view_mode, cells, settings>>

type_month(text) ==
    /\ month_entry' = text
    /\ last' = Idle
    /\ UNCHANGED <<storeVars, year_entry, view_mode, cells, settings>>

\* The Single Month / Full Year radio buttons set view_mode and draw nothing
select_view(mode) ==
    /\ view_mode' = mode
    /\ last' = Idle
    /\ UNCHANGED <<storeVars, year_entry, month_entry, cells, settings>>

\* The Show Calendar button
show_button ==
    /\ \E r \in {set_calendar(year_entry, month_entry, view_mode, cells, settings)} :
          /\ cells' = r.cells
          /\ settings' = r.settings
          /\ last' = IF r.ok THEN "set_calendar" ELSE Rejected
    /\ UNCHANGED <<storeVars, year_entry, month_entry, view_mode>>

\* A faulty change_month that wraps the month and leaves the year
ChangeMonthResult_same_year(y, m, delta) ==
    IF m + delta < 1 THEN <<y, 12>>
    ELSE IF m + delta > 12 THEN <<y, 1>>
    ELSE <<y, m + delta>>

\* The arithmetic of change_month on the parsed entries
ChangeMonthResult(y, m, delta) ==
    IF m + delta < 1 THEN <<y - 1, 12>>
    ELSE IF m + delta > 12 THEN <<y + 1, 1>>
    ELSE <<y, m + delta>>

\* <Left> and <Right>: ValueError from int() is reported and nothing changes
change_month(delta) ==
    LET y == ParseInt(year_entry)
        m == ParseInt(month_entry)
    IN  IF y = Nothing \/ m = Nothing
        THEN /\ last' = Rejected
             /\ UNCHANGED <<storeVars, navVars>>
        ELSE \E r \in {ChangeMonthResult(y[1], m[1], delta)} :
               /\ r[1] \in Years
               /\ year_entry' = IntStr(r[1])
               /\ month_entry' = IntStr(r[2])
               /\ \E c \in {set_calendar(IntStr(r[1]), IntStr(r[2]), view_mode,
                                         cells, settings)} : cells' = c.cells
               /\ settings' = r
               /\ last' = "change_month"
               /\ UNCHANGED <<storeVars, view_mode>>

NextNav ==
    \/ \E text \in YearTexts : type_year(text)
    \/ \E text \in MonthTexts : type_month(text)
    \/ \E mode \in {"month", "year"} : select_view(mode)
    \/ show_button
    \/ \E delta \in {-1, 1} : change_month(delta)

SpecNav == Init /\ [][NextNav]_vars

\* The File menu alone, and the program started again
NextFile ==
    \/ FileMenuStep(ManyImportFileIds)
    \/ restart

SpecFile == Init /\ [][NextFile]_vars

(***************************************************************************)
(* Properties.                                                             *)
(***************************************************************************)
Count(seq, x) == Cardinality({i \in 1..Len(seq) : seq[i] = x})

IsPermutation(a, b) ==
    /\ Len(a) = Len(b)
    /\ \A i \in 1..Len(a) : Count(a, a[i]) = Count(b, a[i])

\* The clock time of a string validate_time accepts, in minutes
ClockMinutes(t) ==
    LET colon == CHOOSE i \in 1..Len(t) : t[i] = ":"
    IN  60 * DigitsVal(SubSeq(t, 1, colon - 1))
            + DigitsVal(SubSeq(t, colon + 1, Len(t)))

\* C1: when a handler that changes the store has got to its end and its
\* write has succeeded, events.json decodes to the store in memory.
C1_Persisted ==
    last = "completed" => file.state = "ok" /\ Loaded(file.json) = Store

C1_Witness ==
    /\ last = "completed"
    /\ TotalEvents(Store) = MaxEvents
    /\ panels # {}

\* C2: a store whose keys are triples of positive integers, saved by
\* save_events and loaded by load_events at the next start, comes back with
\* the same keys and under each key the same events in the same order.
C2_RoundTrip ==
    [][(/\ \A k \in DOMAIN Store : Len(k) = 3 /\ \A i \in 1..3 : k[i] > 0
        /\ file = save_events(events, heap, "ok")
        /\ restart)
       => Store' = Store]_vars

C2_Witness ==
    /\ last = "loaded"
    /\ Cardinality(DOMAIN Store) = 2
    /\ TotalEvents(Store) = 2
    /\ file = save_events(events, heap, "ok")

\* C3: every event in the store has four fields, a non-empty text, a time
\* that is empty or accepted by validate_time, and a priority in 1..3.
C3_WellFormed ==
    \A k \in DOMAIN Store : \A i \in 1..Len(Store[k]) :
        LET e == Store[k][i]
        IN  /\ Len(e) = 4
            /\ Text(e) # <<>>
            /\ Time(e) = <<>> \/ validate_time(Time(e))
            /\ Priority(e) \in 1..3

\* The days claimed for a month: 31, 30, and 30 or 29 for the last month
\* according as day 30 of month 12 is a date
DaysClaimed(year, month) ==
    IF month \in 1..6 THEN 31
    ELSE IF month \in 7..11 THEN 30
    ELSE IF jdatetime_date_ok(year, 12, 30) THEN 30 ELSE 29

OneCellPerDay(cs, days) ==
    /\ Len(cs) = Cardinality(days)
    /\ \A k \in days : \E i \in 1..Len(cs) : cs[i] = k

DaysOfMonth(year, month) ==
    {<<year, month, d>> : d \in 1..get_days_in_month(year, month)}

DaysOfYear(year) == UNION {DaysOfMonth(year, m) : m \in 1..12}

EntriesHoldMonth ==
    /\ ParseInt(year_entry) # Nothing
    /\ ParseInt(month_entry) # Nothing
    /\ ParseInt(month_entry)[1] \in 1..12

\* C5: with integers in the entries and the month in 1..12, change_month(+1)
\* from month 12 gives month 1 of the next year, change_month(-1) from month
\* 1 gives month 12 of the year before, otherwise only the month moves by
\* delta; the month stays in 1..12, and change_month(-1) after
\* change_month(+1) gives the year and month back.
C5_ChangeMonth ==
    [][\A delta \in {-1, 1} :
          (EntriesHoldMonth /\ change_month(delta)) =>
            LET y == ParseInt(year_entry)[1]
                m == ParseInt(month_entry)[1]
                y2 == ParseInt(year_entry')[1]
                m2 == ParseInt(month_entry')[1]
            IN  /\ (delta = 1 /\ m = 12) => (y2 = y + 1 /\ m2 = 1)
                /\ (delta = -1 /\ m = 1) => (y2 = y - 1 /\ m2 = 12)
                /\ ~(delta = 1 /\ m = 12) /\ ~(delta = -1 /\ m = 1)
                      => (y2 = y /\ m2 = m + delta)
                /\ m2 \in 1..12
                /\ delta = 1 => ChangeMonthResult(y2, m2, -1) = <<y, m>>]_vars

C5_Witness ==
    /\ last = "change_month"
    /\ month_entry = <<"1">>
    /\ year_entry = IntStr(Today[1] + 1)

\* Timed events first, in the order of the clock, then the untimed ones
Chronological(seq) ==
    \A i, j \in 1..Len(seq) : i < j =>
        /\ Time(seq[i]) = <<>> => Time(seq[j]) = <<>>
        /\ (Time(seq[i]) # <<>> /\ Time(seq[j]) # <<>>)
              => ClockMinutes(Time(seq[i])) <= ClockMinutes(Time(seq[j]))

\* C6: sort_by_time leaves the events of the day window, every time of
\* which validate_time accepts, as a permutation of what they were, the
\* timed events first in chronological order and the untimed ones after.
C6_SortByTime ==
    [][\A w \in windows, io \in IOOutcomes :
          (/\ \A i \in 1..Len(heap[w.ref]) :
                  Time(heap[w.ref][i]) = <<>> \/ validate_time(Time(heap[w.ref][i]))
           /\ sort_by_time(w, io))
          => /\ IsPermutation(heap[w.ref], GetList(events', heap', w.key))
             /\ Chronological(GetList(events', heap', w.key))]_vars

\* post is pre sorted by priority, equal priorities in their order in pre
SortedStably(pre, post) ==
    /\ Len(pre) = Len(post)
    /\ \E f \in [1..Len(pre) -> 1..Len(pre)] :
          /\ \A i \in 1..Len(pre) : post[i] = pre[f[i]]
          /\ \A i, j \in 1..Len(pre) : i < j =>
                /\ f[i] # f[j]
                /\ Priority(post[i]) <= Priority(post[j])
                /\ Priority(post[i]) = Priority(post[j]) => f[i] < f[j]

\* C7: sort_by_priority leaves the events stored for the day as a
\* permutation of what they were, in non-decreasing priority, equal
\* priorities in their previous order, and the events of every other date
\* as they were.
C7_SortByPriority ==
    [][\A w \in windows, io \in IOOutcomes :
          sort_by_priority(w, io)
          => /\ SortedStably(GetList(events, heap, w.key),
                             GetList(events', heap', w.key))
             /\ \A k \in (DOMAIN Store \cup DOMAIN Store') \ {w.key} :
                   /\ k \in DOMAIN Store /\ k \in DOMAIN Store'
                   /\ Store'[k] = Store[k]]_vars

\* A handler that turns its input down
RejectedStep ==
    \/ \E w \in windows, text \in TextInputs, time \in TimeInputs,
          priority \in PriorityInputs, color \in ColorInputs :
          /\ \/ ~Truthy(text)
             \/ Truthy(time) /\ ~validate_time(time)
             \/ priority = Nothing
          /\ add_event_button(w, text, time, priority, color, "ok")
    \/ \E p \in panels, text \in EntryTexts, time \in EntryTimes,
          priority_str \in PriorityNames, color \in ColorInputs :
          /\ \/ Strip(text) = <<>>
             \/ Strip(time) # <<>> /\ ~validate_time(Strip(time))
          /\ save_changes(p, text, time, priority_str, color, "ok")
    \/ \E w \in windows, selected \in {Nothing} \cup {Some(i) : i \in 0..(MaxEvents + 1)} :
          /\ \/ selected = Nothing
             \/ selected[1] \notin 1..Len(GetList(events, heap, w.key))
          /\ edit_event_button(w, selected)
    \/ \E p \in panels : delete_event(p, FALSE, "ok")
    \/ \E w \in windows : delete_event_button(w, FALSE, "ok")
    \/ delete_all_events(FALSE, "ok")
    \/ \E n \in ManyImportFileIds :
          /\ ImportFile(n).state # "ok" \/ ~KeysDecode(ImportFile(n).json)
          /\ import_events(ImportFile(n), "ok")

\* C8: a handler that turns its input down (no text, a time validate_time
\* rejects, no priority, an index out of range or none, a confirmation
\* declined, an import file that cannot be read or parsed) leaves the store
\* and events.json as they were.
C8_RejectedUnchanged ==
    [][RejectedStep => (Store' = Store /\ file' = file)]_vars

C8_Witness ==
    /\ last = Rejected
    /\ TotalEvents(Store) > 0
    /\ file.state = "ok"
    /\ panels # {}

=============================================================================
